---- MODULE Spec2Model ----
(***************************************************************************)
(* camomile: an HTTP image proxy.  A request `/<digest>/<hex>` carries a   *)
(* hex-encoded URL and its HMAC; the proxy verifies the digest, validates  *)
(* the URL against SSRF (checkUrl), fetches it following at most three     *)
(* redirects (safeFetch), checks the Content-Type and the size of the body *)
(* and writes the response with hardened headers (Camomile.handle).        *)
(*                                                                         *)
(* Strings that the code processes character by character (request URL,    *)
(* hex, decoded URL, hostname, protocol) are sequences of code points;     *)
(* messages and header names/values are TLA+ strings, in which the         *)
(* backquote of the source's messages is written as an apostrophe.         *)
(*                                                                         *)
(* One request is in flight at a time.  The only object shared between     *)
(* requests is the module-level `securityHeaders`, which is read and       *)
(* written synchronously (never across an await), so requests served one   *)
(* after the other exercise every value of it that interleaved requests    *)
(* can produce.                                                            *)
(***************************************************************************)
EXTENDS Integers, Sequences, FiniteSets, TLC

(***************************************************************************)
(* Bounds of the model.                                                    *)
(***************************************************************************)
\* Largest number of chunks an upstream body is split into.
MaxChunks == 3
\* The `maxSize` option the server is constructed with (bytes).
MaxSize == 3

(***************************************************************************)
(* Characters.                                                             *)
(***************************************************************************)
Digits == <<"0", "1", "2", "3", "4", "5", "6", "7", "8", "9">>
LowerLetters == <<"a", "b", "c", "d", "e", "f", "g", "h", "i", "j", "k", "l", "m",
                  "n", "o", "p", "q", "r", "s", "t", "u", "v", "w", "x", "y", "z">>
UpperLetters == <<"A", "B", "C", "D", "E", "F", "G", "H", "I", "J", "K", "L", "M",
                  "N", "O", "P", "Q", "R", "S", "T", "U", "V", "W", "X", "Y", "Z">>

\* The character of a code point (String.fromCharCode); code points outside
\* ASCII letters, digits and the punctuation below do not occur in the
\* strings of the model.
Chr(n) ==
  IF n >= 48 /\ n <= 57 THEN Digits[n - 47]
  ELSE IF n >= 97 /\ n <= 122 THEN LowerLetters[n - 96]
  ELSE IF n >= 65 /\ n <= 90 THEN UpperLetters[n - 64]
  ELSE CASE n = 47 -> "/"
         [] n = 58 -> ":"
         [] n = 46 -> "."
         [] n = 63 -> "?"
         [] n = 45 -> "-"
         [] OTHER -> ""

\* The code point of a character (String.prototype.charCodeAt).
Ord(c) == CHOOSE n \in 45..122 : Chr(n) = c

\* A string literal, written as a tuple of characters, as code points.
S(chars) == [i \in DOMAIN chars |-> Ord(chars[i])]

RECURSIVE Str(_)
\* A sequence of code points as a TLA+ string (for messages).
Str(s) == IF s = <<>> THEN "" ELSE Chr(Head(s)) \o Str(Tail(s))

\* String.prototype.toLowerCase on ASCII code points.
ToLowerCase(s) == [i \in DOMAIN s |-> IF s[i] >= 65 /\ s[i] <= 90 THEN s[i] + 32 ELSE s[i]]

Slash == 47
Colon == 58

(***************************************************************************)
(* String.prototype.split('/').                                            *)
(***************************************************************************)
RECURSIVE SplitFrom(_, _, _)
\* `cur` is the segment being collected, `acc` the segments already closed.
SplitFrom(s, cur, acc) ==
  IF s = <<>> THEN Append(acc, cur)
  ELSE IF Head(s) = Slash THEN SplitFrom(Tail(s), <<>>, Append(acc, cur))
  ELSE SplitFrom(Tail(s), Append(cur, Head(s)), acc)

Split(s) == SplitFrom(s, <<>>, <<>>)

(***************************************************************************)
(* Hex codec.                                                              *)
(***************************************************************************)
\* One nibble as a lowercase hexadecimal digit (Number.prototype.toString(16)).
HexDigit(n) == IF n < 10 THEN 48 + n ELSE 87 + n

\* rehype-github-image/hex-encode.js: two lowercase digits per byte.
hexEncode(bytes) ==
  [i \in 1..(2 * Len(bytes)) |->
     IF i % 2 = 1 THEN HexDigit(bytes[(i + 1) \div 2] \div 16)
     ELSE HexDigit(bytes[i \div 2] % 16)]

IsHexChar(c) == \/ (c >= 48 /\ c <= 57)
                \/ (c >= 97 /\ c <= 102)
                \/ (c >= 65 /\ c <= 70)

HexValue(c) == IF c <= 57 THEN c - 48 ELSE IF c >= 97 THEN c - 87 ELSE c - 55

\* Buffer.from(hex, 'hex'): decodes pair by pair and stops, without an error,
\* at the first pair that is not two hexadecimal digits; a trailing single
\* character is dropped.
BufferFromHex(hex) ==
  LET pairs == 1..(Len(hex) \div 2)
      bad == {k \in pairs : ~(IsHexChar(hex[2 * k - 1]) /\ IsHexChar(hex[2 * k]))}
      n == IF bad = {} THEN Len(hex) \div 2
           ELSE (CHOOSE k \in bad : \A j \in bad : k <= j) - 1
  IN [k \in 1..n |-> 16 * HexValue(hex[2 * k - 1]) + HexValue(hex[2 * k])]

(***************************************************************************)
(* UTF-8.                                                                  *)
(***************************************************************************)
IsContinuation(b) == b >= 128 /\ b <= 191

\* Mutant of Utf8Decode: every byte is a character (latin1).
Utf8DecodeLatin1(bytes) == bytes

RECURSIVE Utf8Decode(_)
\* String(buffer): one- and two-byte sequences are decoded, every other byte
\* becomes U+FFFD (the universe of the model has no three- or four-byte
\* sequences).
Utf8Decode(bytes) ==
  IF bytes = <<>> THEN <<>>
  ELSE IF Head(bytes) < 128 THEN <<Head(bytes)>> \o Utf8Decode(Tail(bytes))
  ELSE IF /\ Head(bytes) >= 194 /\ Head(bytes) <= 223
          /\ Len(bytes) >= 2 /\ IsContinuation(bytes[2])
    THEN <<(Head(bytes) - 192) * 64 + (bytes[2] - 128)>> \o Utf8Decode(SubSeq(bytes, 3, Len(bytes)))
  ELSE <<65533>> \o Utf8Decode(Tail(bytes))

RECURSIVE Utf8Encode(_)
\* The bytes hmac.update(string) hashes.
Utf8Encode(str) ==
  IF str = <<>> THEN <<>>
  ELSE IF Head(str) < 128 THEN <<Head(str)>> \o Utf8Encode(Tail(str))
  ELSE IF Head(str) < 2048
    THEN <<192 + (Head(str) \div 64), 128 + (Head(str) % 64)>> \o Utf8Encode(Tail(str))
  ELSE <<224 + (Head(str) \div 4096), 128 + ((Head(str) \div 64) % 64), 128 + (Head(str) % 64)>>
         \o Utf8Encode(Tail(str))

(***************************************************************************)
(* Constants of lib/constants.js.                                          *)
(***************************************************************************)
securityHeadersInit ==
  [k \in {"X-Frame-Options", "X-XSS-Protection", "X-Content-Type-Options",
          "Content-Security-Policy", "Strict-Transport-Security"} |->
     CASE k = "X-Frame-Options" -> "deny"
       [] k = "X-XSS-Protection" -> "1; mode=block"
       [] k = "X-Content-Type-Options" -> "nosniff"
       [] k = "Content-Security-Policy" ->
            "default-src 'none'; img-src data:; style-src 'unsafe-inline'"
       [] k = "Strict-Transport-Security" -> "max-age=31536000; includeSubDomains"]

defaultRequestHeaders ==
  <<"Accept", "Accept-Charset", "Accept-Language", "Cache-Control",
    "If-None-Match", "If-Modified-Since", "Range">>

defaultResponseHeaders ==
  <<"Accept-Ranges", "Cache-Control", "Content-Length", "Content-Encoding",
    "Content-Range", "Content-Type", "ETag", "Expires", "Last-Modified",
    "Transfer-Encoding">>

defaultMimeTypes ==
  {"image/bmp", "image/cgm", "image/g3fax", "image/gif", "image/ief", "image/jp2",
   "image/jpeg", "image/jpg", "image/pict", "image/png", "image/prs.btif",
   "image/svg+xml", "image/tiff", "image/vnd.adobe.photoshop", "image/vnd.djvu",
   "image/vnd.dwg", "image/vnd.dxf", "image/vnd.fastbidsheet", "image/vnd.fpx",
   "image/vnd.fst", "image/vnd.fujixerox.edmics-mmr", "image/vnd.fujixerox.edmics-rlc",
   "image/vnd.microsoft.icon", "image/vnd.ms-modi", "image/vnd.net-fpx",
   "image/vnd.wap.wbmp", "image/vnd.xiff", "image/webp", "image/x-cmu-raster",
   "image/x-cmx", "image/x-icon", "image/x-macpaint", "image/x-pcx", "image/x-pict",
   "image/x-portable-anymap", "image/x-portable-bitmap", "image/x-portable-graymap",
   "image/x-portable-pixmap", "image/x-quicktime", "image/x-rgb", "image/x-xbitmap",
   "image/x-xpixmap", "image/x-xwindowdump"}

maxRedirects == 3
redirectCodes == {301, 302, 303, 307, 308}

(***************************************************************************)
(* Headers.                                                                *)
(***************************************************************************)
\* toLowerCase on the header names of the allow-lists.
LowerName(k) ==
  CASE k = "Accept" -> "accept"
    [] k = "Accept-Charset" -> "accept-charset"
    [] k = "Accept-Language" -> "accept-language"
    [] k = "Cache-Control" -> "cache-control"
    [] k = "If-None-Match" -> "if-none-match"
    [] k = "If-Modified-Since" -> "if-modified-since"
    [] k = "Range" -> "range"
    [] k = "Accept-Ranges" -> "accept-ranges"
    [] k = "Content-Length" -> "content-length"
    [] k = "Content-Encoding" -> "content-encoding"
    [] k = "Content-Range" -> "content-range"
    [] k = "Content-Type" -> "content-type"
    [] k = "ETag" -> "etag"
    [] k = "Expires" -> "expires"
    [] k = "Last-Modified" -> "last-modified"
    [] k = "Transfer-Encoding" -> "transfer-encoding"

\* Headers.prototype.get: a `Headers` object is a function from lower-case
\* names to values; an absent header reads as null.
Null == "<null>"
HeadersGet(headers, name) == IF name \in DOMAIN headers THEN headers[name] ELSE Null

\* Mutant of filterHeaders: the entries are keyed by the lower-case names.
filterHeadersLowerKeys(allowedHeaders, incomingHeaders) ==
  LET names == {LowerName(allowedHeaders[i]) : i \in DOMAIN allowedHeaders}
  IN [n \in {k \in names : HeadersGet(incomingHeaders, k) # Null} |-> incomingHeaders[n]]

\* Mutant of filterHeaders: every incoming header is passed on.
filterHeadersPassAll(allowedHeaders, incomingHeaders) == incomingHeaders

\* filterHeaders(allowedHeaders)(incomingHeaders): the keys are those of the
\* allow-list, the values those of the incoming headers.
filterHeaders(allowedHeaders, incomingHeaders) ==
  LET allowed == {allowedHeaders[i] : i \in DOMAIN allowedHeaders}
      present == {k \in allowed : HeadersGet(incomingHeaders, LowerName(k)) # Null}
  IN [k \in present |-> HeadersGet(incomingHeaders, LowerName(k))]

\* Object spread {...a, ...b}: the entries of b win.
Spread(a, b) == b @@ a

(***************************************************************************)
(* HMAC.  SHA-1 is replaced by a one-byte keyed checksum; what the model   *)
(* keeps is that the digest is a function of the secret and of the bytes   *)
(* hashed, rendered as lower-case hexadecimal.                             *)
(***************************************************************************)
RECURSIVE Mix(_, _)
Mix(h, bytes) == IF bytes = <<>> THEN h ELSE Mix((h * 33 + Head(bytes) + 1) % 256, Tail(bytes))

\* crypto.createHmac('sha1', secret).update(str).digest('hex')
HmacHex(secret, str) == hexEncode(<<Mix(Mix(7, Utf8Encode(secret)), Utf8Encode(str))>>)

\* Mutant of verifyHmac: the digests are not compared.
verifyHmacUnchecked(secret, receivedDigest, hex) ==
  [threw |-> FALSE, url |-> Utf8Decode(BufferFromHex(hex))]

\* Camomile.verifyHmac: the decoded URL, or the thrown integrity error.
verifyHmac(secret, receivedDigest, hex) ==
  LET Compare(decodedUrl) ==
        IF HmacHex(secret, decodedUrl) # receivedDigest
          THEN [threw |-> TRUE, url |-> <<>>]
          ELSE [threw |-> FALSE, url |-> decodedUrl]
  IN Compare(Utf8Decode(BufferFromHex(hex)))

(***************************************************************************)
(* URL parsing (new URL(url)): protocol and hostname.                      *)
(***************************************************************************)
HttpProtocols == {S(<<"h", "t", "t", "p", ":">>), S(<<"h", "t", "t", "p", "s", ":">>)}
QuestionMark == 63

IndexOf(s, c) == IF \E i \in DOMAIN s : s[i] = c
                   THEN CHOOSE i \in DOMAIN s : s[i] = c /\ \A j \in 1..(i - 1) : s[j] # c
                   ELSE 0

IsAlpha(c) == (c >= 97 /\ c <= 122) \/ (c >= 65 /\ c <= 90)

RECURSIVE DropSlashes(_)
DropSlashes(s) == IF s # <<>> /\ Head(s) = Slash THEN DropSlashes(Tail(s)) ELSE s

\* The authority of `rest`: up to the first `/` or `?`.
HostOf(rest) ==
  LET stops == {i \in DOMAIN rest : rest[i] = Slash \/ rest[i] = QuestionMark}
      end == IF stops = {} THEN Len(rest)
             ELSE (CHOOSE i \in stops : \A j \in stops : i <= j) - 1
  IN SubSeq(rest, 1, end)

\* A string with no scheme (a relative reference) or with an empty host under
\* http(s) does not parse: new URL throws TypeError `Invalid URL`.
ParseUrl(u) ==
  LET invalid == [valid |-> FALSE, protocol |-> <<>>, hostname |-> <<>>]
      Parsed(protocol, hostname) ==
        IF protocol \in HttpProtocols /\ hostname = <<>> THEN invalid
        ELSE [valid |-> TRUE, protocol |-> protocol, hostname |-> hostname]
      Host(special, rest) ==
        IF special THEN ToLowerCase(HostOf(DropSlashes(rest)))
        ELSE IF Len(rest) >= 2 /\ rest[1] = Slash /\ rest[2] = Slash
          THEN HostOf(SubSeq(rest, 3, Len(rest)))
        ELSE <<>>
      WithProtocol(colon, protocol) ==
        Parsed(protocol, Host(protocol \in HttpProtocols, SubSeq(u, colon + 1, Len(u))))
      WithScheme(colon) ==
        IF colon <= 1 \/ ~IsAlpha(u[1]) \/ (\E i \in 1..(colon - 1) : u[i] = Slash)
          THEN invalid
          ELSE WithProtocol(colon, ToLowerCase(SubSeq(u, 1, colon - 1)) \o <<Colon>>)
  IN WithScheme(IndexOf(u, Colon))

(***************************************************************************)
(* IP ranges (ipaddr.process(address).range()) for IPv4 addresses.         *)
(***************************************************************************)
Range(a) ==
  CASE a[1] = 0 -> "unspecified"
    [] a[1] = 10 -> "private"
    [] a[1] = 172 /\ a[2] >= 16 /\ a[2] <= 31 -> "private"
    [] a[1] = 192 /\ a[2] = 168 -> "private"
    [] a[1] = 127 -> "loopback"
    [] a[1] = 169 /\ a[2] = 254 -> "linkLocal"
    [] a[1] = 100 /\ a[2] >= 64 /\ a[2] <= 127 -> "carrierGradeNat"
    [] a[1] >= 224 /\ a[1] <= 239 -> "multicast"
    [] a = <<255, 255, 255, 255>> -> "broadcast"
    [] a[1] >= 240 /\ a # <<255, 255, 255, 255>> -> "reserved"
    [] OTHER -> "unicast"

(***************************************************************************)
(* checkUrl, split at its one await (dns.lookup).                          *)
(***************************************************************************)
\* Up to the lookup: the error thrown, or the hostname to look up.
checkUrlBegin(u) ==
  LET Check(validUrl) ==
        IF ~validUrl.valid
          THEN [threw |-> TRUE, message |-> "Invalid URL", hostname |-> <<>>]
        ELSE IF validUrl.protocol \notin HttpProtocols
          THEN [threw |-> TRUE,
                message |-> "Unexpected non-http protocol '" \o Str(validUrl.protocol)
                              \o "', expected 'http:' or 'https:'",
                hostname |-> <<>>]
        ELSE [threw |-> FALSE, message |-> "", hostname |-> validUrl.hostname]
  IN Check(ParseUrl(u))

\* Mutant of checkUrlEnd: only the loopback range is refused.
checkUrlEndLoopbackOnly(hostname, answer) ==
  IF answer = <<>>
    THEN [threw |-> TRUE, message |-> "Could not look up host '" \o Str(hostname) \o "'"]
  ELSE IF Range(answer) = "loopback"
    THEN [threw |-> TRUE, message |-> "Bad url host"]
  ELSE [threw |-> FALSE, message |-> ""]

\* After the lookup; `answer` is the address, or <<>> when the lookup failed.
checkUrlEnd(hostname, answer) ==
  IF answer = <<>>
    THEN [threw |-> TRUE, message |-> "Could not look up host '" \o Str(hostname) \o "'"]
  ELSE IF Range(answer) # "unicast"
    THEN [threw |-> TRUE, message |-> "Bad url host"]
  ELSE [threw |-> FALSE, message |-> ""]


(***************************************************************************)
(* The server: new Camomile(options).                                      *)
(***************************************************************************)
\* An options object is a function from the names of the options given to
\* their values, and `arguments` is the argument list of `new Camomile`:
\* empty, or the options object.  The result is the error thrown or the
\* fields of the server.
ConstructorWith(options) ==
  IF "secret" \notin DOMAIN options \/ options["secret"] = <<>>
    THEN [threw |-> TRUE, message |-> "Expected 'secret' in options",
          maxSize |-> 0, secret |-> <<>>, serverName |-> ""]
    ELSE [threw |-> FALSE, message |-> "",
          maxSize |-> IF "maxSize" \in DOMAIN options /\ options["maxSize"] # 0
                        THEN options["maxSize"] ELSE 100 * 1024 * 1024,
          secret |-> options["secret"],
          serverName |-> IF "serverName" \in DOMAIN options /\ options["serverName"] # ""
                           THEN options["serverName"] ELSE "camomile"]

\* Mutant of Constructor: without a secret the server gets an empty one.
ConstructorNoThrow(arguments) ==
  [threw |-> FALSE, message |-> "", maxSize |-> 100 * 1024 * 1024,
   secret |-> IF arguments # <<>> /\ "secret" \in DOMAIN arguments[1]
                THEN arguments[1]["secret"] ELSE <<>>,
   serverName |-> "camomile"]

\* new Camomile(...arguments): `!options || !options.secret` throws.
Constructor(arguments) ==
  IF arguments = <<>>
    THEN [threw |-> TRUE, message |-> "Expected 'secret' in options",
          maxSize |-> 0, secret |-> <<>>, serverName |-> ""]
    ELSE ConstructorWith(arguments[1])

Secret == S(<<"k", "e", "y">>)

\* The arguments the server of the model is constructed with:
\* new Camomile({secret, maxSize}).
serverArguments == <<"secret" :> Secret @@ "maxSize" :> MaxSize>>
server == Constructor(serverArguments)

(***************************************************************************)
(* The environment: inbound requests, DNS, upstream servers.               *)
(***************************************************************************)
HttpA == S(<<"h", "t", "t", "p", ":", "/", "/", "a">>)
HttpB == S(<<"h", "t", "t", "p", "s", ":", "/", "/", "b", "/", "i">>)
HttpR == S(<<"h", "t", "t", "p", ":", "/", "/", "r">>)
HttpP == S(<<"h", "t", "t", "p", ":", "/", "/", "p">>)
HttpN == S(<<"h", "t", "t", "p", ":", "/", "/", "n">>)
FileX == S(<<"f", "i", "l", "e", ":", "/", "/", "/", "x">>)
Relative == S(<<"/", "x">>)
NoScheme == S(<<"x">>)

\* The answers dns.lookup can give for a host: an address, or <<>> for a
\* failed lookup.  Host a is public, p private, n unknown, and r answers
\* now with a public address and now with the loopback address.
DnsAnswers(hostname) ==
  CASE hostname = S(<<"a">>) -> {<<93, 184, 216, 34>>}
    [] hostname = S(<<"b">>) -> {<<151, 101, 1, 69>>}
    [] hostname = S(<<"p">>) -> {<<192, 168, 0, 1>>}
    [] hostname = S(<<"r">>) -> {<<93, 184, 216, 34>>, <<127, 0, 0, 1>>}
    [] OTHER -> {<<>>}

\* What the signer (camo) makes of a URL: /<digest>/<hex>.
SignedPath(secret, u) ==
  <<Slash>> \o HmacHex(secret, u) \o <<Slash>> \o hexEncode(Utf8Encode(u))

\* A digest that is not the one of u under the server's secret.
WrongDigest(u) == hexEncode(<<(Mix(Mix(7, Utf8Encode(Secret)), Utf8Encode(u)) + 1) % 256>>)

\* request.url of the inbound requests.
RequestUrls ==
  {SignedPath(Secret, u) : u \in {HttpA, HttpR, HttpP, HttpN, FileX, NoScheme}}
  \cup {SignedPath(S(<<"i", "n", "v", "a", "l", "i", "d">>), HttpA),
        <<Slash>> \o WrongDigest(HttpA) \o <<Slash>> \o hexEncode(Utf8Encode(HttpA)),
        <<Slash>> \o HmacHex(Secret, HttpA),
        <<Slash>>}
  \cup {SignedPath(Secret, FileX) \o S(<<"0">>),
        SignedPath(Secret, NoScheme) \o S(<<"z", "z">>),
        SignedPath(S(<<"i", "n", "v", "a", "l", "i", "d">>), HttpA) \o S(<<"0">>)}
  \cup {SignedPath(Secret, HttpN) \o S(<<"/", "x">>),
        S(<<"/", "f", "i", "l", "e", "s">>) \o SignedPath(Secret, FileX)}

Methods == {"GET", "HEAD", "DELETE"}

\* request.headers (Node lower-cases the names).
InboundHeaders ==
  {"cache-control" :> "no-cache" @@ "x-forwarded-for" :> "2001:db8::1",
   "accept" :> "image/*" @@ "accept-encoding" :> "gzip" @@ "cookie" :> "sid=1"
     @@ "referer" :> "https://host/page" @@ "range" :> "bytes=0-1"}

\* An inbound request; hasUrl is false when request.url is undefined.
Requests ==
  {[method |-> m, hasUrl |-> TRUE, url |-> u, headers |-> h] :
     m \in Methods, u \in RequestUrls, h \in InboundHeaders}
  \cup {[method |-> "GET", hasUrl |-> FALSE, url |-> <<>>, headers |-> h] : h \in InboundHeaders}

\* The k-th chunk of a body, n bytes long: its bytes tell the chunks apart.
Chunk(k, n) == [i \in 1..n |-> 16 * k + i]

\* The sizes of the chunks the upstream sends.
ChunkLengths == {1, 2}

\* The bodies of the upstream: up to MaxChunks chunks.
Bodies ==
  UNION {{[k \in 1..m |-> Chunk(k, lens[k])] : lens \in [1..m -> ChunkLengths]} : m \in 0..MaxChunks}

RECURSIVE ConcatReversed(_)
\* Mutant of Concat: the chunks are joined last to first.
ConcatReversed(cs) == IF cs = <<>> THEN <<>> ELSE ConcatReversed(Tail(cs)) \o Head(cs)

RECURSIVE Concat(_)
\* Buffer.concat(chunks)
Concat(cs) == IF cs = <<>> THEN <<>> ELSE Head(cs) \o Concat(Tail(cs))

\* Response headers of the upstream (a Headers object: lower-case names).
\* The value of `location` is a sequence of code points.
ImageHeaders ==
  "content-type" :> "image/png" @@ "content-length" :> "1024" @@ "server" :> "iwillbefiltered"
GifHeaders ==
  "content-type" :> "image/gif" @@ "etag" :> "W/1" @@ "via" :> "1.1 upstream"
    @@ "x-frame-options" :> "allowall"

LocationHeaders ==
  {"location" :> u @@ "server" :> "nginx" : u \in {HttpB, HttpP, Relative}}
  \cup {"server" :> "nginx"}

BadTypeHeaders ==
  {"content-length" :> "1",
   "content-type" :> "" @@ "content-length" :> "1",
   "content-type" :> "video/mp4",
   "content-type" :> "image/png; charset=utf-8",
   "content-type" :> "IMAGE/PNG"}

\* What an upstream server can answer to one outbound request.
UpstreamResponses ==
  {[status |-> st, headers |-> h, body |-> <<>>] : st \in {302, 308}, h \in LocationHeaders}
  \cup {[status |-> 200, headers |-> h, body |-> <<Chunk(1, 1)>>] : h \in BadTypeHeaders}
  \cup {[status |-> 200, headers |-> ImageHeaders, body |-> b] : b \in Bodies}
  \cup {[status |-> 404, headers |-> GifHeaders, body |-> b] : b \in {<<>>, <<Chunk(1, 1), Chunk(2, 1)>>}}
  \cup {[status |-> 302, headers |-> ImageHeaders, body |-> <<Chunk(1, 2)>>]}
  \cup {[status |-> 304, headers |-> GifHeaders, body |-> <<>>]}

(***************************************************************************)
(* State.                                                                  *)
(***************************************************************************)
VARIABLES
  securityHeaders,    \* the object exported by lib/constants.js
  pc,                 \* where handle() is: idle, checkUrl, fetch, redirect, read, done
  request,            \* the inbound request being handled
  decodedUrl,         \* handle: decodedUrl
  url,                \* safeFetch: url
  redirectCount,      \* safeFetch: redirectCount
  pending,            \* checkUrl: the URL being checked and the hostname looked up
  upstream,           \* safeFetch: response
  chunks,             \* safeFetch: chunks
  currentByteLength,  \* safeFetch: currentByteLength
  closed,             \* the client has disconnected (request emitted `close`)
  signal,             \* handle: whether the close listener is registered, and signal.aborted
  response,           \* what was written to the http.ServerResponse
  logged,             \* number of console.error calls for this request
  trace               \* history of the request: the sequence of its events (HMAC
                      \* computed, lookup issued and answered, URL passed checkUrl,
                      \* outbound request, upstream response, body read)

VARIABLES
  options,            \* the argument list of new Camomile
  instance,           \* what new Camomile gave: the server or the thrown error
  verified            \* a direct call of verifyHmac and its result

\* The variables of the construction and of a direct call of verifyHmac.
unit == <<options, instance, verified>>

vars == <<securityHeaders, pc, request, decodedUrl, url, redirectCount, pending, upstream,
          chunks, currentByteLength, closed, signal, response, logged, trace, unit>>

\* `new Camomile` has not run (no server has an empty secret).
NotConstructed == [threw |-> FALSE, message |-> "", maxSize |-> 0, secret |-> <<>>,
                   serverName |-> ""]
\* verifyHmac has not been called directly (no digest is empty).
NoCall == [bytes |-> <<>>, digest |-> <<>>, hex |-> <<>>, threw |-> FALSE, url |-> <<>>]

NoRequest == [method |-> "", hasUrl |-> FALSE, url |-> <<>>, headers |-> <<>>]
NoPending == [url |-> <<>>, hostname |-> <<>>]
NoUpstream == [status |-> 0, headers |-> <<>>, body |-> <<>>]
NoBody == [kind |-> "none", text |-> "", bytes |-> <<>>]
NoResponse == [writeHeads |-> 0, ended |-> FALSE, status |-> 0, headers |-> <<>>, body |-> NoBody]
NoSignal == [listening |-> FALSE, aborted |-> FALSE]
NoTrace == <<>>

\* The events of the history.
Event(type) == [type |-> type, url |-> <<>>, hostname |-> <<>>, address |-> <<>>,
                method |-> "", headers |-> <<>>, size |-> 0]
HmacEvent == Event("hmac")
LookupEvent(hostname) == [Event("lookup") EXCEPT !.hostname = hostname]
AnswerEvent(hostname, answer) == [Event("answer") EXCEPT !.hostname = hostname, !.address = answer]
CheckedEvent(u) == [Event("checked") EXCEPT !.url = u]
FetchEvent(u, method, headers, address) ==
  [Event("fetch") EXCEPT !.url = u, !.method = method, !.headers = headers, !.address = address]
ResponseEvent == Event("response")
ReadEvent(size) == [Event("read") EXCEPT !.size = size]

\* No request has come and none is being handled.
Idle ==
  /\ securityHeaders = securityHeadersInit
  /\ pc = "idle"
  /\ request = NoRequest
  /\ decodedUrl = <<>>
  /\ url = <<>>
  /\ redirectCount = 0
  /\ pending = NoPending
  /\ upstream = NoUpstream
  /\ chunks = <<>>
  /\ currentByteLength = 0
  /\ closed = FALSE
  /\ signal = NoSignal
  /\ response = NoResponse
  /\ logged = 0
  /\ trace = NoTrace

\* The server is constructed and listens.
Init ==
  /\ Idle
  /\ options = serverArguments
  /\ instance = server
  /\ verified = NoCall

(***************************************************************************)
(* Writing the response.                                                   *)
(***************************************************************************)
\* Buffer.byteLength(body, 'utf8'); every message of the server is ASCII.
ByteLength(text) == Len(text)

\* Mutant of writeHeaders: a Content-Length that is there already is kept.
writeHeadersKeepsLength(headers, status, body) ==
  IF status # 204 /\ "Content-Length" \notin DOMAIN headers
    THEN ("Content-Length" :> ToString(ByteLength(body))) @@ headers
    ELSE headers

\* The headers object after write() has set its Content-Length: with the
\* default parameter it is `securityHeaders` itself.
writeHeaders(headers, status, body) ==
  IF status # 204 THEN ("Content-Length" :> ToString(ByteLength(body))) @@ headers ELSE headers

\* Camomile.write(response, status, body) with the default `headers`.
Write(res, status, body) ==
  /\ securityHeaders' = writeHeaders(securityHeaders, status, body)
  /\ response' = [writeHeads |-> res.writeHeads + 1, ended |-> TRUE, status |-> status,
                  headers |-> writeHeaders(securityHeaders, status, body),
                  body |-> [kind |-> "text", text |-> body, bytes |-> <<>>]]
  /\ pc' = "done"

\* Mutant of successHeaders: the security headers are not spread in.
successHeadersNoSecurity(responseHeaders) ==
  Spread(filterHeaders(defaultResponseHeaders, responseHeaders), "Via" :> server.serverName)

\* Mutant of successHeaders: Via is the name of an earlier version.
successHeadersViaCamo(responseHeaders) ==
  Spread(Spread(securityHeaders, filterHeaders(defaultResponseHeaders, responseHeaders)),
         "Via" :> "camo")

\* The headers of a 200 or 204.
successHeaders(responseHeaders) ==
  Spread(Spread(securityHeaders, filterHeaders(defaultResponseHeaders, responseHeaders)),
         "Via" :> server.serverName)

\* handle: response.writeHead(status, headers), response.write(buffer), response.end()
Emit(status, body, responseHeaders) ==
  /\ response' = [writeHeads |-> response.writeHeads + 1, ended |-> TRUE, status |-> status,
                  headers |-> successHeaders(responseHeaders), body |-> body]
  /\ pc' = "done"
  /\ UNCHANGED securityHeaders

\* Mutant of Silent: handle does not return on an AbortError.
SilentHangs ==
  /\ pc' = pc
  /\ UNCHANGED <<securityHeaders, response>>

\* Mutant of Silent: an AbortError is answered like any other error.
SilentAnswers500 == Write(response, 500, "Internal server error")

\* handle returns without writing (AbortError).
Silent ==
  /\ pc' = "done"
  /\ UNCHANGED <<securityHeaders, response>>


(***************************************************************************)
(* Camomile.handle and safeFetch, split at their awaits.                   *)
(***************************************************************************)
\* handle() from its entry to the first await (the dns.lookup of checkUrl) or
\* to the response that ends it: status 0 stands for `still running`.
\* A segment that does not exist is undefined, and Buffer.from(undefined)
\* throws inside the try of verifyHmac.
handleBeginWith(methods, minSegments, r) ==
  LET stop(status, message, events) ==
        [status |-> status, message |-> message, decodedUrl |-> <<>>, hostname |-> <<>>,
         events |-> events]
      \* after verifyHmac returned v.url: checkUrl up to its lookup
      Checked(v, c) ==
        IF c.threw
          THEN [stop(400, c.message, <<HmacEvent>>) EXCEPT !.decodedUrl = v.url]
          ELSE [status |-> 0, message |-> "", decodedUrl |-> v.url, hostname |-> c.hostname,
                events |-> <<HmacEvent, LookupEvent(c.hostname)>>]
      Verified(v) ==
        IF v.threw THEN stop(403, "Bad signature", <<HmacEvent>>)
        ELSE Checked(v, checkUrlBegin(v.url))
      Routed(paths) ==
        IF ~(r.hasUrl /\ Len(paths) >= minSegments) THEN stop(404, "Malformed request", <<>>)
        ELSE Verified(IF Len(paths) >= 3 THEN verifyHmac(server.secret, paths[2], paths[3])
                      ELSE [threw |-> TRUE, url |-> <<>>])
  IN IF r.method \notin methods THEN stop(405, "Method not allowed", <<>>)
     ELSE Routed(Split(r.url))

\* Mutant of handleBegin: DELETE is let through.
handleBeginAnyMethod(r) == handleBeginWith({"GET", "HEAD", "DELETE"}, 3, r)

\* Mutant of handleBegin: two segments are enough.
handleBeginTwoSegments(r) == handleBeginWith({"GET", "HEAD"}, 2, r)

\* Mutant of handleBegin: the digest and the URL are the last two segments.
handleBeginLastSegments(r) ==
  LET Last(paths) ==
        IF r.hasUrl /\ Len(paths) >= 3
          THEN [r EXCEPT !.url = <<Slash>> \o paths[Len(paths) - 1] \o <<Slash>>
                                   \o paths[Len(paths)]]
          ELSE r
  IN handleBeginWith({"GET", "HEAD"}, 3, Last(Split(r.url)))

handleBegin(r) == handleBeginWith({"GET", "HEAD"}, 3, r)

\* Mutant of followsRedirect: one redirect more is followed.
followsRedirectOneMore(status, count) == status \in redirectCodes /\ count <= maxRedirects

\* safeFetch: whether the loop goes on to follow the response as a redirect.
followsRedirect(status, count) == status \in redirectCodes /\ count < maxRedirects

\* Mutant of checkContentType: any Content-Type that is present passes.
checkContentTypePresentOnly(headers) ==
  LET contentType == HeadersGet(headers, "content-type")
  IN IF contentType = Null \/ contentType = ""
       THEN "Unexpected missing 'Content-type' header in remote server response"
     ELSE ""

\* Mutant of checkContentType: the parameters and the case of the value are
\* ignored.
checkContentTypeLenient(headers) ==
  LET contentType == HeadersGet(headers, "content-type")
  IN IF contentType = Null \/ contentType = ""
       THEN "Unexpected missing 'Content-type' header in remote server response"
     ELSE IF contentType \notin defaultMimeTypes \cup {"image/png; charset=utf-8", "IMAGE/PNG"}
       THEN "Unexpected non-image 'Content-type' in remote server response, this might not be an image or it might not be supported by camomile"
     ELSE ""

\* safeFetch: the Content-Type check; the message of the HttpError 400 thrown,
\* or "" when the type is allowed.
checkContentType(headers) ==
  LET contentType == HeadersGet(headers, "content-type")
  IN IF contentType = Null \/ contentType = ""
       THEN "Unexpected missing 'Content-type' header in remote server response"
     ELSE IF contentType \notin defaultMimeTypes
       THEN "Unexpected non-image 'Content-type' in remote server response, this might not be an image or it might not be supported by camomile"
     ELSE ""

\* Mutant of countChunk: the lengths are not added up, each chunk is compared
\* with maxSize on its own.
countChunkNoSum(byteLength, value, maxSize) ==
  [currentByteLength |-> Len(value), tooLarge |-> maxSize # 0 /\ Len(value) > maxSize]

\* Mutant of countChunk: the count is compared before the chunk is added.
countChunkCheckBefore(byteLength, value, maxSize) ==
  [currentByteLength |-> IF maxSize # 0 THEN byteLength + Len(value) ELSE byteLength,
   tooLarge |-> maxSize # 0 /\ byteLength > maxSize]

\* Mutant of countChunk: a body of exactly maxSize bytes is too large already.
countChunkInclusive(byteLength, value, maxSize) ==
  [currentByteLength |-> IF maxSize # 0 THEN byteLength + Len(value) ELSE byteLength,
   tooLarge |-> maxSize # 0 /\ byteLength + Len(value) >= maxSize]

\* Mutant of countChunk: the 413 is thrown at twice maxSize.
countChunkTwice(byteLength, value, maxSize) ==
  [currentByteLength |-> IF maxSize # 0 THEN byteLength + Len(value) ELSE byteLength,
   tooLarge |-> maxSize # 0 /\ byteLength + Len(value) > 2 * maxSize]

\* safeFetch: the byte count after a chunk, and whether it throws the 413.
countChunk(byteLength, value, maxSize) ==
  LET counted == IF maxSize # 0 THEN byteLength + Len(value) ELSE byteLength
  IN [currentByteLength |-> counted, tooLarge |-> maxSize # 0 /\ counted > maxSize]

\* fetch(url, options): the outbound request, with the request headers that
\* handle filtered and the address the transport resolves the host to
\* (<<>>: it cannot connect).  `tr` is the history up to the call.
IssueFetch(u, tr) ==
  \E address \in DnsAnswers(ParseUrl(u).hostname) :
    /\ trace' = Append(tr, FetchEvent(u, request.method,
                                      filterHeaders(defaultRequestHeaders, request.headers),
                                      address))
    /\ pc' = "fetch"

\* A request arrives.
Receive(r) ==
  /\ pc = "idle"
  /\ request' = r
  /\ LET Begun(begin) ==
           /\ IF begin.status # 0
                THEN Write(NoResponse, begin.status, begin.message)
                ELSE /\ pc' = "checkUrl"
                     /\ response' = NoResponse
                     /\ UNCHANGED securityHeaders
           /\ decodedUrl' = begin.decodedUrl
           /\ pending' = IF begin.status = 0
                           THEN [url |-> begin.decodedUrl, hostname |-> begin.hostname]
                           ELSE NoPending
           /\ trace' = begin.events
     IN Begun(handleBegin(r))
  /\ url' = <<>>
  /\ redirectCount' = 0
  /\ upstream' = NoUpstream
  /\ chunks' = <<>>
  /\ currentByteLength' = 0
  /\ closed' = FALSE
  /\ signal' = NoSignal
  /\ logged' = 0
  /\ UNCHANGED unit

\* The client goes away: the request emits `close`, which aborts the
\* controller if handle has registered its listener by then.
ClientClose ==
  /\ pc \in {"checkUrl", "fetch", "redirect", "read"}
  /\ ~closed
  /\ closed' = TRUE
  /\ signal' = [signal EXCEPT !.aborted = signal.listening]
  /\ UNCHANGED <<securityHeaders, pc, request, decodedUrl, url, redirectCount, pending,
                 upstream, chunks, currentByteLength, response, logged, trace>>
  /\ UNCHANGED unit

\* dns.lookup of the initial URL settles: the rest of checkUrl, then the
\* listener, then safeFetch up to its first fetch.
LookupInitial(answer) ==
  /\ pc = "checkUrl"
  /\ answer \in DnsAnswers(pending.hostname)
  /\ LET e == checkUrlEnd(pending.hostname, answer)
         answered == Append(trace, AnswerEvent(pending.hostname, answer))
     IN IF e.threw
          THEN /\ Write(response, 400, e.message)
               /\ trace' = answered
               /\ UNCHANGED <<url, signal>>
          ELSE /\ signal' = [listening |-> TRUE, aborted |-> FALSE]
               /\ url' = decodedUrl
               /\ IssueFetch(decodedUrl, Append(answered, CheckedEvent(decodedUrl)))
               /\ UNCHANGED <<securityHeaders, response>>
  /\ pending' = NoPending
  /\ UNCHANGED <<request, decodedUrl, redirectCount, upstream, chunks, currentByteLength,
                 closed, logged>>
  /\ UNCHANGED unit

\* Mutant of InternalError: the error is logged and nothing is written.
InternalErrorSilent ==
  /\ logged' = logged + 1
  /\ pc' = "done"
  /\ UNCHANGED <<securityHeaders, response>>

\* Mutant of InternalError: the error is answered 502.
InternalErrorBadGateway ==
  /\ logged' = logged + 1
  /\ Write(response, 502, "Bad gateway")

\* The catch of handle for an error that is neither HttpError nor AbortError.
InternalError ==
  /\ logged' = logged + 1
  /\ Write(response, 500, "Internal server error")

\* Mutant of FollowRedirect: the Location is fetched without checkUrl.
FollowRedirectUnchecked(r, tr) ==
  IF "location" \notin DOMAIN r.headers \/ r.headers["location"] = <<>>
    THEN /\ Write(response, 400,
                  "Unexpected missing 'Location' header in redirect response by remote server")
         /\ trace' = tr
         /\ UNCHANGED <<pending, logged, url, redirectCount>>
    ELSE /\ url' = r.headers["location"]
         /\ redirectCount' = redirectCount + 1
         /\ IssueFetch(r.headers["location"], tr)
         /\ UNCHANGED <<pending, logged, securityHeaders, response>>

\* Mutant of FollowRedirect: a missing Location is an internal error.
FollowRedirectMissingAs500(r, tr) ==
  IF "location" \notin DOMAIN r.headers \/ r.headers["location"] = <<>>
    THEN /\ InternalError
         /\ trace' = tr
         /\ UNCHANGED <<pending, url, redirectCount>>
    ELSE LET Checked(redirectedUrl, c) ==
               IF c.threw
                 THEN /\ InternalError
                      /\ trace' = tr
                      /\ UNCHANGED <<pending, url, redirectCount>>
                 ELSE /\ pc' = "redirect"
                      /\ pending' = [url |-> redirectedUrl, hostname |-> c.hostname]
                      /\ trace' = Append(tr, LookupEvent(c.hostname))
                      /\ UNCHANGED <<securityHeaders, response, logged, url, redirectCount>>
         IN Checked(r.headers["location"], checkUrlBegin(r.headers["location"]))

\* safeFetch: the body of the redirect loop after the break test, up to the
\* dns.lookup of checkUrl(redirectedUrl).  `tr` is the history so far.
FollowRedirect(r, tr) ==
  IF "location" \notin DOMAIN r.headers \/ r.headers["location"] = <<>>
    THEN /\ Write(response, 400,
                  "Unexpected missing 'Location' header in redirect response by remote server")
         /\ trace' = tr
         /\ UNCHANGED <<pending, logged, url, redirectCount>>
    ELSE LET Checked(redirectedUrl, c) ==
               IF c.threw
                 THEN /\ InternalError
                      /\ trace' = tr
                      /\ UNCHANGED <<pending, url, redirectCount>>
                 ELSE /\ pc' = "redirect"
                      /\ pending' = [url |-> redirectedUrl, hostname |-> c.hostname]
                      /\ trace' = Append(tr, LookupEvent(c.hostname))
                      /\ UNCHANGED <<securityHeaders, response, logged, url, redirectCount>>
         IN Checked(r.headers["location"], checkUrlBegin(r.headers["location"]))

\* Mutant of Terminal: an upstream response that is not a 2xx is refused.
TerminalChecksStatus(r) ==
  LET message == checkContentType(r.headers)
  IN IF r.status < 200 \/ r.status > 299
       THEN Write(response, 400, "Unexpected status in remote server response")
     ELSE IF message # "" THEN Write(response, 400, message)
     ELSE IF request.method = "HEAD" THEN Emit(204, NoBody, r.headers)
     ELSE /\ pc' = "read"
          /\ UNCHANGED <<securityHeaders, response>>

\* Mutant of Terminal: the body is read for HEAD as for GET.
TerminalHeadReads(r) ==
  LET message == checkContentType(r.headers)
  IN IF message # "" THEN Write(response, 400, message)
     ELSE /\ pc' = "read"
          /\ UNCHANGED <<securityHeaders, response>>

\* safeFetch after the redirect loop: the Content-Type check, then the
\* result for HEAD (handle writes the 204) or the first reader.read().
Terminal(r) ==
  LET message == checkContentType(r.headers)
  IN IF message # "" THEN Write(response, 400, message)
     ELSE IF request.method = "HEAD" THEN Emit(204, NoBody, r.headers)
     ELSE /\ pc' = "read"
          /\ UNCHANGED <<securityHeaders, response>>

\* The pending fetch resolves with a response of the upstream.
FetchRespond(r) ==
  /\ pc = "fetch"
  /\ ~signal.aborted
  /\ trace[Len(trace)].address # <<>>
  /\ upstream' = r
  /\ IF followsRedirect(r.status, redirectCount)
       THEN FollowRedirect(r, Append(trace, ResponseEvent))
       ELSE /\ Terminal(r)
            /\ trace' = Append(trace, ResponseEvent)
            /\ UNCHANGED <<pending, logged, url, redirectCount>>
  /\ chunks' = <<>>
  /\ currentByteLength' = 0
  /\ UNCHANGED <<request, decodedUrl, closed, signal>>
  /\ UNCHANGED unit

\* The pending fetch rejects with AbortError: the signal was aborted.
FetchAborted ==
  /\ pc = "fetch"
  /\ signal.aborted
  /\ Silent
  /\ UNCHANGED <<request, decodedUrl, url, redirectCount, pending, upstream, chunks,
                 currentByteLength, closed, signal, logged, trace>>
  /\ UNCHANGED unit

\* The pending fetch rejects with a transport error (TypeError: fetch failed).
FetchFailed ==
  /\ pc = "fetch"
  /\ ~signal.aborted
  /\ InternalError
  /\ UNCHANGED <<request, decodedUrl, url, redirectCount, pending, upstream, chunks,
                 currentByteLength, closed, signal, trace>>
  /\ UNCHANGED unit

\* dns.lookup of a redirect target settles: the rest of checkUrl, then the
\* next turn of the loop of safeFetch up to its fetch, which rejects at once
\* when the signal is aborted already.
LookupRedirect(answer) ==
  /\ pc = "redirect"
  /\ answer \in DnsAnswers(pending.hostname)
  /\ LET e == checkUrlEnd(pending.hostname, answer)
         answered == Append(trace, AnswerEvent(pending.hostname, answer))
     IN IF e.threw
          THEN /\ InternalError
               /\ trace' = answered
               /\ UNCHANGED <<url, redirectCount>>
          ELSE /\ url' = pending.url
               /\ redirectCount' = redirectCount + 1
               /\ IF signal.aborted
                    THEN /\ Silent
                         /\ trace' = Append(answered, CheckedEvent(pending.url))
                    ELSE /\ IssueFetch(pending.url, Append(answered, CheckedEvent(pending.url)))
                         /\ UNCHANGED <<securityHeaders, response>>
               /\ UNCHANGED logged
  /\ pending' = NoPending
  /\ UNCHANGED <<request, decodedUrl, upstream, chunks, currentByteLength, closed, signal>>
  /\ UNCHANGED unit

\* reader.read() resolves with a chunk.
ReadChunk ==
  /\ pc = "read"
  /\ ~signal.aborted
  /\ Len(chunks) < Len(upstream.body)
  /\ LET value == upstream.body[Len(chunks) + 1]
         step == countChunk(currentByteLength, value, server.maxSize)
     IN /\ chunks' = Append(chunks, value)
        /\ currentByteLength' = step.currentByteLength
        /\ trace' = Append(trace, ReadEvent(Len(value)))
        /\ IF step.tooLarge
             THEN Write(response, 413, "Unexpected too large 'Content-Length'")
             ELSE /\ pc' = "read"
                  /\ UNCHANGED <<securityHeaders, response>>
  /\ UNCHANGED <<request, decodedUrl, url, redirectCount, pending, upstream, closed, signal,
                 logged>>
  /\ UNCHANGED unit

\* reader.read() resolves with done: safeFetch returns, handle writes the 200.
ReadDone ==
  /\ pc = "read"
  /\ ~signal.aborted
  /\ Len(chunks) = Len(upstream.body)
  /\ Emit(200, [kind |-> "buffer", text |-> "", bytes |-> Concat(chunks)], upstream.headers)
  /\ trace' = Append(trace, Event("end"))
  /\ UNCHANGED <<request, decodedUrl, url, redirectCount, pending, upstream, chunks,
                 currentByteLength, closed, signal, logged>>
  /\ UNCHANGED unit

\* reader.read() rejects with AbortError: the signal was aborted.
ReadAborted ==
  /\ pc = "read"
  /\ signal.aborted
  /\ Silent
  /\ UNCHANGED <<request, decodedUrl, url, redirectCount, pending, upstream, chunks,
                 currentByteLength, closed, signal, logged, trace>>
  /\ UNCHANGED unit

\* reader.read() rejects because the upstream stream failed.
ReadFailed ==
  /\ pc = "read"
  /\ ~signal.aborted
  /\ InternalError
  /\ UNCHANGED <<request, decodedUrl, url, redirectCount, pending, upstream, chunks,
                 currentByteLength, closed, signal, trace>>
  /\ UNCHANGED unit

\* handle() has returned and the response is out: the request, the response
\* and the locals of the call are gone; `securityHeaders` stays as it is.
Return ==
  /\ pc = "done"
  /\ pc' = "idle"
  /\ request' = NoRequest
  /\ decodedUrl' = <<>>
  /\ url' = <<>>
  /\ redirectCount' = 0
  /\ pending' = NoPending
  /\ upstream' = NoUpstream
  /\ chunks' = <<>>
  /\ currentByteLength' = 0
  /\ closed' = FALSE
  /\ signal' = NoSignal
  /\ response' = NoResponse
  /\ logged' = 0
  /\ trace' = NoTrace
  /\ UNCHANGED securityHeaders
  /\ UNCHANGED unit

Addresses == UNION {DnsAnswers(S(<<h>>)) : h \in {"a", "b", "p", "r", "n"}}

Next ==
  \/ \E r \in Requests : Receive(r)
  \/ Return
  \/ ClientClose
  \/ \E answer \in Addresses : LookupInitial(answer)
  \/ \E r \in UpstreamResponses : FetchRespond(r)
  \/ FetchAborted
  \/ FetchFailed
  \/ \E answer \in Addresses : LookupRedirect(answer)
  \/ ReadChunk
  \/ ReadDone
  \/ ReadAborted
  \/ ReadFailed

Spec == Init /\ [][Next]_vars

\* A promise handle or safeFetch awaits settles: the dns.lookup of checkUrl,
\* the fetch, or a reader.read().
Settle ==
  \/ \E answer \in Addresses : LookupInitial(answer)
  \/ \E r \in UpstreamResponses : FetchRespond(r)
  \/ FetchAborted
  \/ FetchFailed
  \/ \E answer \in Addresses : LookupRedirect(answer)
  \/ ReadChunk
  \/ ReadDone
  \/ ReadAborted
  \/ ReadFailed

\* The server under the assumption that every lookup, fetch and read
\* completes or fails: the event loop then runs the continuation of the
\* await.  Nothing is assumed of the clients.
LiveSpec == Spec /\ WF_vars(Settle)

(***************************************************************************)
(* Construction and verifyHmac on their own: the arguments of             *)
(* `new Camomile` and the byte strings signed are drawn from bounded sets. *)
(***************************************************************************)
\* An option that is absent or has one of the values.
Option(name, values) == {<<>>} \cup {name :> v : v \in values}

\* The argument lists of new Camomile: none, or an options object.
ConstructorArguments ==
  {<<>>} \cup
  {<<a @@ b @@ c>> :
     a \in Option("secret", {<<>>, Secret, S(<<"k">>), S(<<"i", "n", "v", "a", "l", "i", "d">>)}),
     b \in Option("maxSize", {0, 1, MaxSize}),
     c \in Option("serverName", {"", "camomile", "proxy"})}

\* The bytes of the signed strings: ASCII, the two bytes of U+00E9, and 255,
\* which no UTF-8 text holds.
SignedBytes == {47, 97, 195, 169, 255}
MaxSigned == 2
ByteStrings == UNION {[1..n -> SignedBytes] : n \in 0..MaxSigned}

\* The signer on bytes: hex(HMAC_SHA1(secret, bytes)).
SignerDigest(secret, bytes) == hexEncode(<<Mix(Mix(7, Utf8Encode(secret)), bytes)>>)

UnitInit ==
  /\ Idle
  /\ options \in ConstructorArguments
  /\ instance = NotConstructed
  /\ verified = NoCall

\* new Camomile(...options)
Construct ==
  /\ instance = NotConstructed
  /\ instance' = Constructor(options)
  /\ UNCHANGED <<securityHeaders, pc, request, decodedUrl, url, redirectCount, pending,
                 upstream, chunks, currentByteLength, closed, signal, response, logged,
                 trace, options, verified>>

\* server.verifyHmac(digest, hex) for the digest and the hex the signer makes
\* of the bytes U.
Verify(U) ==
  LET Called(digest, hex, result) ==
        [bytes |-> U, digest |-> digest, hex |-> hex,
         threw |-> result.threw, url |-> result.url]
      Call(digest, hex) == Called(digest, hex, verifyHmac(instance.secret, digest, hex))
  IN /\ instance # NotConstructed
     /\ ~instance.threw
     /\ verified = NoCall
     /\ verified' = Call(SignerDigest(instance.secret, U), hexEncode(U))
     /\ UNCHANGED <<securityHeaders, pc, request, decodedUrl, url, redirectCount, pending,
                    upstream, chunks, currentByteLength, closed, signal, response, logged,
                    trace, options, instance>>

UnitNext ==
  \/ Construct
  \/ \E U \in ByteStrings : Verify(U)

UnitSpec == UnitInit /\ [][UnitNext]_vars

(***************************************************************************)
(* Properties.                                                             *)
(***************************************************************************)
\* The positions of the events of one type in the history of the request.
EventsOf(type) == {i \in DOMAIN trace : trace[i].type = type}

\* The segments of the URL of the request.
Paths == Split(request.url)

\* The request passes the method and path tests: GET or HEAD, three segments
\* or more.
WellFormed(paths) ==
  /\ pc # "idle"
  /\ request.method \in {"GET", "HEAD"}
  /\ request.hasUrl
  /\ Len(paths) >= 3

\* The URL encoded in the third segment, and the digest the signer computes
\* for it.
UrlOfThirdSegment(paths) == Utf8Decode(BufferFromHex(paths[3]))
DigestOf(u) == HmacHex(Secret, u)

\* The upstream response in `upstream` is the one safeFetch stopped at: every
\* outbound request was answered and the last answer was not followed as a
\* redirect.
FinalResponseReached ==
  /\ EventsOf("fetch") # {}
  /\ Cardinality(EventsOf("response")) = Cardinality(EventsOf("fetch"))
  /\ ~(upstream.status \in {301, 302, 303, 307, 308} /\ Cardinality(EventsOf("fetch")) <= 3)

AllowedType ==
  /\ "content-type" \in DOMAIN upstream.headers
  /\ upstream.headers["content-type"] \in defaultMimeTypes

\* C1: every response written, whatever its status and whatever requests
\* were served before, carries the five security headers.
C1_SecurityHeadersOnEveryResponse ==
  response.writeHeads > 0 =>
    /\ response.status \in {200, 204, 400, 403, 404, 405, 413, 500}
    /\ {"X-Frame-Options", "X-XSS-Protection", "X-Content-Type-Options",
        "Content-Security-Policy", "Strict-Transport-Security"} \subseteq DOMAIN response.headers

\* A 204 written after an earlier request got an error response.
C1_Witness ==
  /\ response.status = 204
  /\ "Content-Length" \in DOMAIN securityHeaders

\* C2: a GET or HEAD with three segments or more whose second segment is not
\* the HMAC of the URL decoded from the third gets 403 `Bad signature`, with
\* no DNS lookup and no outbound request.
C2_BadSignatureIs403 ==
  LET paths == Paths
  IN (WellFormed(paths) /\ paths[2] # DigestOf(UrlOfThirdSegment(paths))) =>
       /\ pc = "done"
       /\ response.writeHeads = 1
       /\ response.status = 403
       /\ response.body.text = "Bad signature"
       /\ EventsOf("lookup") = {}
       /\ EventsOf("fetch") = {}

\* A HEAD signed with another secret was answered 403.
C2_Witness ==
  /\ request.method = "HEAD"
  /\ request.url = SignedPath(S(<<"i", "n", "v", "a", "l", "i", "d">>), HttpA)
  /\ response.status = 403

\* C3: every URL handed to fetch passed checkUrl earlier in the same request:
\* before the outbound request there is the lookup of its host answered with
\* a unicast address and the return of checkUrl for that URL.
C3_FetchOnlyAfterCheckUrl ==
  \A i \in EventsOf("fetch") :
    LET parsed == ParseUrl(trace[i].url)
    IN /\ parsed.valid
       /\ Str(parsed.protocol) \in {"http:", "https:"}
       /\ \E j \in 1..(i - 1) :
            /\ trace[j].type = "checked"
            /\ trace[j].url = trace[i].url
            /\ \E k \in 1..(j - 1) :
                 /\ trace[k].type = "answer"
                 /\ trace[k].address # <<>>
                 /\ trace[k].hostname = parsed.hostname
                 /\ Range(trace[k].address) = "unicast"

\* A redirect to another URL was followed: two outbound requests, two URLs.
C3_Witness ==
  \E i, j \in EventsOf("fetch") :
    /\ i < j
    /\ trace[i].url = HttpA
    /\ trace[j].url = HttpB

\* C4: a method other than GET and HEAD gets 405 `Method not allowed`
\* whatever the path and the signature, with no HMAC, lookup or outbound
\* request.
C4_OtherMethodsAre405 ==
  (pc # "idle" /\ request.method \notin {"GET", "HEAD"}) =>
    /\ pc = "done"
    /\ response.writeHeads = 1
    /\ response.status = 405
    /\ response.body.text = "Method not allowed"
    /\ trace = <<>>

\* A DELETE of a correctly signed URL was answered 405.
C4_Witness ==
  /\ request.method = "DELETE"
  /\ request.url = SignedPath(Secret, HttpA)
  /\ response.status = 405

\* C5: a GET or HEAD whose URL has fewer than three segments, or no URL,
\* gets 404 `Malformed request` before any HMAC, lookup or outbound request.
C5_ShortPathsAre404 ==
  (/\ pc # "idle"
   /\ request.method \in {"GET", "HEAD"}
   /\ (~request.hasUrl \/ Len(Paths) < 3)) =>
    /\ pc = "done"
    /\ response.writeHeads = 1
    /\ response.status = 404
    /\ response.body.text = "Malformed request"
    /\ trace = <<>>

\* A GET of `/<digest>`, with the digest only, was answered 404.
C5_Witness ==
  /\ request.method = "GET"
  /\ request.url = <<Slash>> \o HmacHex(Secret, HttpA)
  /\ response.status = 404

\* The answer to the lookup of the host of the initial URL, once it is there.
InitialAnswered == EventsOf("answer") # {}
InitialAnswer == trace[CHOOSE i \in EventsOf("answer") : \A j \in EventsOf("answer") : i <= j].address

\* C6: a correctly signed initial URL that fails the SSRF validation gets 400
\* and no outbound request; the body names the protocol (and there is no
\* lookup) for a scheme other than http(s), names the host when the lookup
\* fails, and is `Bad url host` when the address is not unicast.
C6_InitialUrlRefused ==
  LET paths == Paths
      signedUrl == UrlOfThirdSegment(paths)
      parsed == ParseUrl(signedUrl)
      refused == /\ pc = "done"
                 /\ response.writeHeads = 1
                 /\ response.status = 400
                 /\ EventsOf("fetch") = {}
  IN (WellFormed(paths) /\ paths[2] = DigestOf(signedUrl)) =>
       /\ ~parsed.valid => refused
       /\ (parsed.valid /\ Str(parsed.protocol) \notin {"http:", "https:"}) =>
            /\ refused
            /\ EventsOf("lookup") = {}
            /\ response.body.text = "Unexpected non-http protocol '" \o Str(parsed.protocol)
                                      \o "', expected 'http:' or 'https:'"
       /\ (InitialAnswered /\ InitialAnswer = <<>>) =>
            /\ refused
            /\ response.body.text = "Could not look up host '" \o Str(parsed.hostname) \o "'"
       /\ (InitialAnswered /\ InitialAnswer # <<>> /\ Range(InitialAnswer) # "unicast") =>
            /\ refused
            /\ response.body.text = "Bad url host"

\* A signed URL whose host resolved to a private address was answered 400.
C6_Witness ==
  /\ decodedUrl = HttpP
  /\ InitialAnswered
  /\ Range(InitialAnswer) = "private"
  /\ response.status = 400
  /\ response.body.text = "Bad url host"

\* C7: a 200 or 204 is written only when the Content-Type of the final
\* upstream response is present, not empty and a member of the MIME list,
\* and the Content-Type sent to the client is that value.
C7_SuccessHasAllowedContentType ==
  response.status \in {200, 204} =>
    /\ FinalResponseReached
    /\ "content-type" \in DOMAIN upstream.headers
    /\ upstream.headers["content-type"] # ""
    /\ upstream.headers["content-type"] \in defaultMimeTypes
    /\ "Content-Type" \in DOMAIN response.headers
    /\ response.headers["Content-Type"] = upstream.headers["content-type"]

\* A 204 for a response reached after a redirect.
C7_Witness ==
  /\ response.status = 204
  /\ redirectCount >= 1
  /\ response.headers["Content-Type"] = "image/gif"

C9_BodyWithinMaxSize ==
  response.status = 200 =>
    /\ response.body.kind = "buffer"
    /\ Len(response.body.bytes) <= MaxSize

\* A 200 whose body came in several chunks and is exactly maxSize long.
C9_Witness ==
  /\ response.status = 200
  /\ Len(chunks) >= 2
  /\ Len(response.body.bytes) = MaxSize

\* C10: on every outbound request, the first and every redirect hop, the
\* headers set are among the seven of the request allow-list and carry the
\* inbound values; no other inbound header is forwarded.
C10_OnlyAllowedRequestHeaders ==
  \A i \in EventsOf("fetch") :
    /\ DOMAIN trace[i].headers \subseteq
         {"Accept", "Accept-Charset", "Accept-Language", "Cache-Control", "If-None-Match",
          "If-Modified-Since", "Range"}
    /\ \A k \in DOMAIN trace[i].headers :
         /\ LowerName(k) \in DOMAIN request.headers
         /\ trace[i].headers[k] = request.headers[LowerName(k)]

\* A redirect hop of a request that came with Accept, Cookie and
\* Accept-Encoding carried the Accept.
C10_Witness ==
  \E i \in EventsOf("fetch") :
    /\ trace[i].url = HttpB
    /\ {"cookie", "accept-encoding"} \subseteq DOMAIN request.headers
    /\ "Accept" \in DOMAIN trace[i].headers
    /\ trace[i].headers["Accept"] = "image/*"

\* The keys a response may carry: the response allow-list in its own casing,
\* the security headers and Via.
ResponseKeys ==
  {defaultResponseHeaders[i] : i \in DOMAIN defaultResponseHeaders}
    \cup DOMAIN securityHeadersInit \cup {"Via"}

\* C11: the header keys of every response written, after any sequence of
\* requests, are keys of the response allow-list in its casing, security
\* headers or Via; the Server header of the upstream is not among them.
C11_OnlyAllowedResponseHeaders ==
  response.writeHeads >= 1 =>
    /\ DOMAIN response.headers \subseteq ResponseKeys
    /\ {"Server", "server"} \cap DOMAIN response.headers = {}

\* A 200, on a server that has answered with an error before, for an upstream
\* response that carries a Server header and lower-case names.
C11_Witness ==
  /\ response.status = 200
  /\ securityHeaders # securityHeadersInit
  /\ "server" \in DOMAIN upstream.headers
  /\ "content-type" \in DOMAIN upstream.headers
  /\ {"Content-Type", "Content-Length", "Via"} \subseteq DOMAIN response.headers

\* C12 as stated: the module-level securityHeaders keeps its five initial
\* entries, whatever requests were served.
C12_Original == securityHeaders = securityHeadersInit

\* The headers a server that has served nothing before writes for the request
\* in flight, under the same upstream behaviour.
FreshHeaders ==
  IF response.status \in {200, 204}
    THEN Spread(Spread(securityHeadersInit,
                       filterHeaders(defaultResponseHeaders, upstream.headers)),
                "Via" :> server.serverName)
    ELSE writeHeaders(securityHeadersInit, response.status, response.body.text)

\* C13 as stated: the response to a request does not depend on the requests
\* the server served earlier; its headers are those of a fresh server.
C13_Original ==
  response.writeHeads >= 1 => response.headers = FreshHeaders

\* Every outbound request of the history was preceded by a passed checkUrl
\* of its URL.
EveryFetchChecked ==
  \A i \in EventsOf("fetch") :
    \E j \in EventsOf("checked") : j < i /\ trace[j].url = trace[i].url

\* The request in flight is a GET whose final upstream response is no
\* redirect, has an allowed Content-Type and a body within maxSize.
ServableGet ==
  /\ pc = "done"
  /\ request.method = "GET"
  /\ FinalResponseReached
  /\ upstream.status \notin redirectCodes
  /\ AllowedType
  /\ Len(Concat(upstream.body)) <= MaxSize

C15_RedirectBudget ==
  /\ redirectCount <= maxRedirects
  /\ Cardinality(EventsOf("fetch")) <= maxRedirects + 1
  /\ \A i \in EventsOf("response") : i > 1 /\ trace[i - 1].type = "fetch"
  /\ ~(response.status >= 300 /\ response.status <= 399)
  /\ (/\ Cardinality(EventsOf("response")) = maxRedirects + 1
      /\ upstream.status \in redirectCodes) =>
       /\ pc \in {"read", "done"}
       /\ pending = NoPending
       /\ (pc = "done" /\ ~AllowedType) =>
            /\ response.status = 400
            /\ response.body.text = checkContentType(upstream.headers)

\* The fourth outbound request is answered with a redirect status and an
\* image: it is served as a 200.
C15_Witness ==
  /\ Cardinality(EventsOf("fetch")) = maxRedirects + 1
  /\ upstream.status = 302
  /\ response.status = 200

\* The last event of the history.
LastEvent == trace[Len(trace)]

\* The Location of the upstream response in `upstream`, and whether it has a
\* non-empty one.
Location == upstream.headers["location"]
HasLocation == "location" \in DOMAIN upstream.headers /\ Location # <<>>

\* The request ended because checkUrl refused the Location of a redirect that
\* safeFetch was following: before the lookup, or on its answer.
RedirectRefused ==
  /\ pc = "done"
  /\ followsRedirect(upstream.status, redirectCount)
  /\ HasLocation
  /\ \/ LastEvent.type = "response" /\ checkUrlBegin(Location).threw
     \/ LastEvent.type = "answer" /\ checkUrlEnd(LastEvent.hostname, LastEvent.address).threw

\* The message checkUrl throws for the refused Location.
RefusalMessage ==
  IF LastEvent.type = "response" THEN checkUrlBegin(Location).message
  ELSE checkUrlEnd(LastEvent.hostname, LastEvent.address).message

\* C16 as stated: a redirect whose Location fails checkUrl is answered 400
\* with the message of checkUrl, and the Location is not fetched.
C16_Original ==
  RedirectRefused =>
    /\ response.status = 400
    /\ response.body.text = RefusalMessage
    /\ \A i \in EventsOf("fetch") : trace[i].url # Location

\* C17: a redirect received within the budget that has no Location is
\* answered 400 with the fixed message, and no outbound request follows it.
C17_MissingLocationIs400 ==
  (/\ pc = "done"
   /\ followsRedirect(upstream.status, redirectCount)
   /\ ~HasLocation) =>
    /\ response.writeHeads = 1
    /\ response.status = 400
    /\ response.body.text =
         "Unexpected missing 'Location' header in redirect response by remote server"
    /\ logged = 0
    /\ LastEvent.type = "response"
    /\ Cardinality(EventsOf("fetch")) = Cardinality(EventsOf("response"))

\* The 400 for a 308 without Location, received as the answer to the second
\* outbound request.
C17_Witness ==
  /\ response.status = 400
  /\ upstream.status = 308
  /\ "location" \notin DOMAIN upstream.headers
  /\ redirectCount = 1
  /\ Cardinality(EventsOf("fetch")) = 2

\* C18 as stated: once the client has disconnected, the signal of the request
\* is aborted, whenever the disconnect happened; so no outbound request is
\* pending or started and no chunk is awaited with the signal not aborted.
C18_Original ==
  (closed /\ pc \in {"fetch", "redirect", "read"}) => signal.aborted

\* C19: when the fetch or a body read ends with AbortError, handle returns
\* with nothing written to the response and nothing logged.
C19_AbortIsSilent ==
  (pc = "done" /\ signal.aborted /\ ~RedirectRefused) =>
    /\ response = NoResponse
    /\ logged = 0

\* The client went away during the body read of a response reached after a
\* redirect: the request is over and nothing was written.
C19_Witness ==
  /\ pc = "done"
  /\ signal.aborted
  /\ redirectCount >= 1
  /\ Len(chunks) >= 1
  /\ response.writeHeads = 0

\* The request ended because the outbound fetch rejected with a transport
\* error, or a read of the body with a stream error, the signal not aborted.
TransportFailed ==
  /\ pc = "done"
  /\ ~signal.aborted
  /\ trace # <<>>
  /\ \/ LastEvent.type = "fetch"
     \/ /\ LastEvent.type \in {"response", "read"}
        /\ logged > 0
        /\ ~RedirectRefused

\* C20 as stated: a transport failure of the outbound fetch is answered with
\* status 400, 403 or 413.
C20_Original ==
  TransportFailed => response.status \in {400, 403, 413}

\* C21: an error of the fetch stage that is neither an HttpError nor an
\* AbortError (a rejected fetch, a failed body stream, a Location refused by
\* checkUrl) is logged once and answered 500 with the fixed body; the message
\* of the error is not in the response.
C21_OtherErrorsAre500 ==
  /\ (TransportFailed \/ RedirectRefused) =>
       /\ response.writeHeads = 1
       /\ response.status = 500
       /\ response.body.text = "Internal server error"
       /\ logged = 1
  /\ RedirectRefused => response.body.text # RefusalMessage
  /\ logged > 0 => (TransportFailed \/ RedirectRefused)

\* The 500 for a redirect to a host with a private address.
C21_Witness ==
  /\ RedirectRefused
  /\ LastEvent.type = "answer"
  /\ RefusalMessage = "Bad url host"
  /\ response.status = 500

RECURSIVE Offset(_, _)
\* The number of bytes in the chunks before the k-th.
Offset(cs, k) == IF k = 1 THEN 0 ELSE Offset(cs, k - 1) + Len(cs[k - 1])

\* C22: a 200 answers a GET, and its body is the chunks the reader yielded,
\* which are those the upstream sent, byte for byte in their order of arrival.
C22_BodyIsUpstreamBody ==
  response.status = 200 =>
    /\ request.method = "GET"
    /\ chunks = upstream.body
    /\ response.body.kind = "buffer"
    /\ Len(response.body.bytes) = Offset(chunks, Len(chunks) + 1)
    /\ \A k \in DOMAIN chunks : \A i \in DOMAIN chunks[k] :
         response.body.bytes[Offset(chunks, k) + i] = chunks[k][i]

\* A 200 whose body came in two chunks of different lengths.
C22_Witness ==
  /\ response.status = 200
  /\ Len(chunks) = 2
  /\ Len(chunks[1]) # Len(chunks[2])
  /\ response.body.bytes = chunks[1] \o chunks[2]

\* C23: a HEAD is never answered 200; a 204 answers a HEAD, has no body, was
\* written without any read of the upstream body, and carries the value of
\* every allow-listed header the upstream sent.
C23_HeadIs204 ==
  /\ (response.writeHeads >= 1 /\ request.method = "HEAD") => response.status # 200
  /\ response.status = 204 =>
       /\ request.method = "HEAD"
       /\ response.body = NoBody
       /\ EventsOf("read") = {}
       /\ chunks = <<>>
       /\ \A i \in DOMAIN defaultResponseHeaders :
            LowerName(defaultResponseHeaders[i]) \in DOMAIN upstream.headers =>
              /\ defaultResponseHeaders[i] \in DOMAIN response.headers
              /\ response.headers[defaultResponseHeaders[i]] =
                   upstream.headers[LowerName(defaultResponseHeaders[i])]

\* A 204 for an upstream response that has a body and a Content-Length.
C23_Witness ==
  /\ response.status = 204
  /\ upstream.body # <<>>
  /\ "Content-Length" \in DOMAIN response.headers
  /\ response.headers["Content-Length"] = "1024"
  /\ response.headers["Content-Type"] = "image/png"

\* The statuses write() is called with.
ErrorStatuses == {400, 403, 404, 405, 413, 500}

\* C24: a response is a 200, a 204 or an error; an error response has the
\* five security headers with their values, a Content-Length that is the
\* byte length of its own body, and no other header.
C24_ErrorHeaders ==
  /\ response.writeHeads >= 1 => response.status \in ErrorStatuses \cup {200, 204}
  /\ response.status \in ErrorStatuses =>
       /\ response.body.kind = "text"
       /\ DOMAIN response.headers = DOMAIN securityHeadersInit \cup {"Content-Length"}
       /\ \A k \in DOMAIN securityHeadersInit : response.headers[k] = securityHeadersInit[k]
       /\ response.headers["Content-Length"] = ToString(Len(response.body.text))

\* A 500 for a request whose upstream sent a Server header.
C24_Witness ==
  /\ response.status = 500
  /\ "server" \in DOMAIN upstream.headers
  /\ response.headers["Content-Length"] = "21"

\* The third segment is not the hex encoding of anything: its length is odd
\* or one of its characters is not a hexadecimal digit.
MalformedHex(hex) == Len(hex) % 2 = 1 \/ \E i \in DOMAIN hex : ~IsHexChar(hex[i])

\* C25 as stated: a well-formed request whose third segment has odd length or
\* a character that is not a hexadecimal digit is answered 403 Bad signature,
\* whatever its digest.  Buffer.from(hex, 'hex') does not fail on such input:
\* it decodes the pairs before the first bad one, and the request passes with
\* the digest of that prefix.
C25_Original ==
  (WellFormed(Paths) /\ MalformedHex(Paths[3]) /\ response.writeHeads >= 1) =>
    /\ response.status = 403
    /\ response.body.text = "Bad signature"

RECURSIVE IsUtf8(_)
\* The bytes are the UTF-8 encoding of a string (of one- and two-byte
\* characters).
IsUtf8(bytes) ==
  IF bytes = <<>> THEN TRUE
  ELSE IF Head(bytes) < 128 THEN IsUtf8(Tail(bytes))
  ELSE /\ Head(bytes) >= 194 /\ Head(bytes) <= 223
       /\ Len(bytes) >= 2
       /\ bytes[2] >= 128 /\ bytes[2] <= 191
       /\ IsUtf8(SubSeq(bytes, 3, Len(bytes)))

\* C26 as stated: for every byte string U, verifyHmac of the digest and the
\* hex the signer makes of U succeeds and returns U.  String(buffer) turns
\* every byte that is not UTF-8 into U+FFFD, the HMAC is taken over the
\* string, and the digest of the signer, taken over the bytes, differs.
C26_Original ==
  verified # NoCall =>
    /\ ~verified.threw
    /\ Utf8Encode(verified.url) = verified.bytes

\* C26: for every byte string U that is the UTF-8 encoding of a string, and
\* every secret, verifyHmac of the digest and the hex the signer makes of U
\* succeeds and returns the string U encodes.
C26_RoundTripOfUtf8 ==
  (verified # NoCall /\ IsUtf8(verified.bytes)) =>
    /\ ~verified.threw
    /\ Utf8Encode(verified.url) = verified.bytes
    /\ BufferFromHex(verified.hex) = verified.bytes

\* The round trip of a string of one two-byte character under a secret that
\* is not the one of the pipeline's server.
C26_Witness ==
  /\ verified # NoCall
  /\ verified.bytes = <<195, 169>>
  /\ verified.url = <<233>>
  /\ instance.secret # Secret

\* C27: new Camomile throws exactly when it is given no options object, or
\* one with no secret or an empty secret; the error has the fixed message
\* and there is no server; with a secret that is not empty the server has it.
C27_SecretIsRequired ==
  instance # NotConstructed =>
    /\ instance.threw <=>
         \/ options = <<>>
         \/ "secret" \notin DOMAIN options[1]
         \/ options[1]["secret"] = <<>>
    /\ instance.threw =>
         /\ instance.message = "Expected 'secret' in options"
         /\ instance.secret = <<>>
         /\ verified = NoCall
    /\ ~instance.threw => instance.secret = options[1]["secret"]

\* new Camomile() with no argument has thrown.
C27_Witness ==
  /\ options = <<>>
  /\ instance # NotConstructed
  /\ instance.threw

\* The events that may come right before an event of each type.
Predecessors(type) ==
  CASE type = "lookup" -> {"hmac", "response"}
    [] type = "answer" -> {"lookup"}
    [] type = "checked" -> {"answer"}
    [] type = "fetch" -> {"checked"}
    [] type = "response" -> {"fetch"}
    [] type = "read" -> {"response", "read"}
    [] type = "end" -> {"response", "read"}
    [] OTHER -> {}

\* C28: the history of a request starts with the HMAC verification; the
\* lookup of the SSRF check comes after the verification or after a redirect
\* response, an outbound request right after the check of its own URL (the
\* first is for the verified URL), a read after the final response; no
\* status line is written while a stage is under way, a 200 or 204 is
\* written after the final response (a 200 after the end of the body), and
\* an error response ends the request where it is.
C28_StagesInOrder ==
  /\ trace # <<>> => trace[1].type = "hmac"
  /\ \A i \in DOMAIN trace : i > 1 =>
       /\ trace[i - 1].type \in Predecessors(trace[i].type)
       /\ trace[i].type = "fetch" => trace[i - 1].url = trace[i].url
       /\ trace[i].type = "answer" => trace[i - 1].hostname = trace[i].hostname
  /\ \A i \in EventsOf("fetch") :
       (\A j \in EventsOf("fetch") : i <= j) => trace[i].url = decodedUrl
  /\ \A i \in EventsOf("read") : \A j \in EventsOf("fetch") : j < i
  /\ pc \in {"idle", "checkUrl", "fetch", "redirect", "read"} => response.writeHeads = 0
  /\ response.writeHeads >= 1 =>
       /\ response.writeHeads = 1
       /\ pc = "done"
       /\ response.status = 200 => (FinalResponseReached /\ LastEvent.type = "end")
       /\ response.status = 204 => (FinalResponseReached /\ LastEvent.type = "response")
       /\ response.status = 403 => trace = <<HmacEvent>>
       /\ response.status \in {404, 405} => trace = <<>>

\* A 200 after one redirect: two checks, two outbound requests, reads, end.
C28_Witness ==
  /\ response.status = 200
  /\ Cardinality(EventsOf("fetch")) = 2
  /\ Cardinality(EventsOf("checked")) = 2
  /\ EventsOf("read") # {}
  /\ LastEvent.type = "end"

RECURSIVE ReadBefore(_)
\* The bytes the reads before the i-th event have yielded.
ReadBefore(i) == IF i = 1 THEN 0 ELSE ReadBefore(i - 1) + trace[i - 1].size

\* C30: every read of the upstream body, the one that finds its end
\* included, is issued while the bytes read so far are within maxSize; the
\* 413 comes right after the read whose chunk crosses the limit, and the
\* chunks kept are those of the reads.
C30_NoReadPastLimit ==
  /\ \A i \in EventsOf("read") \cup EventsOf("end") : ReadBefore(i) <= MaxSize
  /\ pc = "read" => (currentByteLength <= MaxSize /\ response.writeHeads = 0)
  /\ response.status = 413 =>
       /\ LastEvent.type = "read"
       /\ ReadBefore(Len(trace)) <= MaxSize
       /\ ReadBefore(Len(trace)) + LastEvent.size > MaxSize
       /\ Len(chunks) = Cardinality(EventsOf("read"))
       /\ currentByteLength = ReadBefore(Len(trace)) + LastEvent.size

\* A 413 at the second chunk of a body of three: the third is not read.
C30_Witness ==
  /\ response.status = 413
  /\ Len(upstream.body) = 3
  /\ Len(chunks) = 2
  /\ Cardinality(EventsOf("read")) = 2

\* The body of the last upstream response is not left open: there is no
\* response or no body (none comes with the answer to a HEAD), the signal
\* given to fetch was aborted, the stream failed, or it was read to its end.
\* Neither safeFetch nor handle cancels a body.
BodyReleased ==
  \/ upstream = NoUpstream
  \/ upstream.body = <<>>
  \/ request.method = "HEAD"
  \/ signal.aborted
  \/ TransportFailed
  \/ LastEvent.type = "end"

\* C29 as stated: when the handler of a request that reached the fetcher
\* has returned, the body of the upstream response is consumed or cancelled.
\* After a 413, and after a 400 for the Content-Type of a GET, the body is
\* left unread and nothing cancels it.
C29_Original ==
  (pc = "done" /\ EventsOf("fetch") # {}) => BodyReleased

\* The Content-Type of the final upstream response is absent or empty.
MissingType ==
  \/ "content-type" \notin DOMAIN upstream.headers
  \/ upstream.headers["content-type"] = ""

\* C31: when the final upstream response has no Content-Type or an empty one
\* the answer is the 400 for a missing Content-Type; when it has one that is
\* not, character for character, a member of the MIME list, the answer is the
\* 400 for a non-image; in both cases without any read of the body.
C31_ContentTypeIsExact ==
  (FinalResponseReached /\ ~AllowedType) =>
    /\ pc = "done"
    /\ response.writeHeads = 1
    /\ response.status = 400
    /\ MissingType => response.body.text =
         "Unexpected missing 'Content-type' header in remote server response"
    /\ ~MissingType => response.body.text =
         "Unexpected non-image 'Content-type' in remote server response, this might not be an image or it might not be supported by camomile"
    /\ EventsOf("read") = {}
    /\ chunks = <<>>

\* The 400 for a listed type followed by a parameter, the body not read.
C31_Witness ==
  /\ FinalResponseReached
  /\ ~MissingType
  /\ upstream.headers["content-type"] = "image/png; charset=utf-8"
  /\ upstream.body # <<>>
  /\ response.status = 400
  /\ chunks = <<>>

\* C32 as stated: a 200 or 204 has a Content-Length only when the final
\* upstream response has one, and then the upstream's; its headers are the
\* five security headers, the filtered upstream headers and Via.  write()
\* stores the Content-Length of an error response in the securityHeaders
\* object of the module, and handle spreads that object into the headers of
\* every later 200 or 204.
C32_Original ==
  response.status \in {200, 204} =>
    /\ "Content-Length" \in DOMAIN response.headers <=>
         "content-length" \in DOMAIN upstream.headers
    /\ "Content-Length" \in DOMAIN response.headers =>
         response.headers["Content-Length"] = upstream.headers["content-length"]
    /\ DOMAIN response.headers \subseteq
         DOMAIN securityHeadersInit \cup {"Via"}
           \cup {defaultResponseHeaders[i] : i \in {j \in DOMAIN defaultResponseHeaders :
                   LowerName(defaultResponseHeaders[j]) \in DOMAIN upstream.headers}}

\* C33 as stated: every outbound request that connects goes to an address
\* of the unicast range.  checkUrl looks the host up and drops the address;
\* fetch is given the URL and resolves the host again, and connects to what
\* the second resolution answers.
C33_Original ==
  \A i \in EventsOf("fetch") :
    trace[i].address # <<>> => Range(trace[i].address) = "unicast"

C35_OneResponse ==
  /\ response.writeHeads <= 1
  /\ (pc = "done" /\ ~signal.aborted) => (response.writeHeads = 1 /\ response.ended)
  /\ (pc = "done" /\ response.writeHeads = 0) => (signal.aborted /\ closed)
  /\ pc \notin {"idle", "done"} => response.writeHeads = 0

\* A request that ended without a response after the client went away
\* during the read of the body.
C35_Witness ==
  /\ pc = "done"
  /\ signal.aborted
  /\ EventsOf("read") # {}
  /\ response.writeHeads = 0

\* C36: if every DNS lookup, upstream response and body read eventually
\* completes or fails, a request that is being handled eventually
\* terminates: its handler returns, with a response or, after an abort,
\* without.
C36_Terminates == (pc \in {"checkUrl", "fetch", "redirect", "read"}) ~> (pc = "done")

\* A request ended although every upstream response was a redirect: the
\* fourth is not followed.
C36_Witness ==
  /\ pc = "done"
  /\ Cardinality(EventsOf("response")) = maxRedirects + 1
  /\ upstream.status \in redirectCodes
  /\ redirectCount = maxRedirects

\* The number of bytes of the body of the final upstream response.
BodyTotal == Offset(upstream.body, Len(upstream.body) + 1)

====
